---- MODULE Spec2Model ----
(***************************************************************************)
(* A model of modbus-serve-csv: the plan computation of initSim (root.go), *)
(* the cyclic CSV reader and the simulation units (server.go) and the      *)
(* scheduler goroutine started by Serve, with the main flow's timeout.     *)
(*                                                                         *)
(* A CSV cell is a sequence of one-character strings, a row a sequence of  *)
(* cells and a file a sequence of rows (what encoding/csv hands to the     *)
(* program).  A byte is a number 0..255 and a register word 0..65535.      *)
(***************************************************************************)
EXTENDS Integers, Sequences, FiniteSets, TLC

\* -------------------------------------------------------------- bounds
\* The scheduler handles at most MaxTicks clock ticks in a run of the model.
MaxTicks == 6
\* The configuration lists at most MaxSims servers in a run of the scheduler
\* and at most MaxPlanSims when only the plan is computed.
MaxSims == 2
MaxPlanSims == 3

\* ---------------------------------------------------- program constants
\* var timestep uint16: arithmetic on it wraps at 2^16.
Uint16Mod == 65536
\* The default of the -t flag.
DefaultTimestep == 30

\* ------------------------------------------------------------ utilities
Min2(a, b) == IF a < b THEN a ELSE b

RECURSIVE Pow(_, _)
Pow(b, e) == IF e = 0 THEN 1 ELSE b * Pow(b, e - 1)

Range(s) == {s[i] : i \in 1..Len(s)}

Rev(s) == [j \in 1..Len(s) |-> s[Len(s) + 1 - j]]

\* contains[T]: linear search of a slice.
contains(testElem, slice) == \E i \in 1..Len(slice) : slice[i] = testElem

\* A search that settles for the divisor every number has.
GCDGivesOne(p, q) == 1

\* Euclid's algorithm on uint16.
RECURSIVE GCD(_, _)
GCD(p, q) == IF q = 0 THEN p ELSE GCD(q, p % q)

\* GCDSlice that stops after the first pair.
GCDSliceFirstPair(slice) == IF Len(slice) < 2 THEN -1 ELSE GCD(slice[1], slice[2])

\* GCDSlice: x, y, z := slice[0], slice[1], slice[2:]; slice[1] of a slice
\* shorter than 2 is an index out of range, reported here as -1 (a panic).
RECURSIVE GCDSlice(_)
GCDSlice(slice) ==
    IF Len(slice) < 2 THEN -1
    ELSE LET r == GCD(slice[1], slice[2])
             z == SubSeq(slice, 3, Len(slice))
         IN  IF Len(z) = 0 THEN r ELSE GCDSlice(Append(z, r))

RECURSIVE minFrom(_, _, _)
minFrom(array, k, min) ==
    IF k > Len(array) THEN min
    ELSE minFrom(array, k + 1, IF min > array[k] THEN array[k] ELSE min)

\* minSliceUint: the smallest element of a non-empty slice.
minSliceUint(array) == minFrom(array, 1, array[1])

\* ------------------------------------------------------------ the codec
Digits == {"0", "1", "2", "3", "4", "5", "6", "7", "8", "9"}

DigitVal(c) ==
    CASE c = "0" -> 0 [] c = "1" -> 1 [] c = "2" -> 2 [] c = "3" -> 3
      [] c = "4" -> 4 [] c = "5" -> 5 [] c = "6" -> 6 [] c = "7" -> 7
      [] c = "8" -> 8 [] c = "9" -> 9

RECURSIVE DecVal(_)
DecVal(ds) ==
    IF Len(ds) = 0 THEN 0
    ELSE 10 * DecVal(SubSeq(ds, 1, Len(ds) - 1)) + DigitVal(ds[Len(ds)])

AllDigits(s) == Len(s) > 0 /\ \A i \in 1..Len(s) : s[i] \in Digits

ParseFail == [ok |-> FALSE, val |-> 0]

\* strconv.ParseUint(s, 10, bitSize): decimal digits only, no sign; a value
\* of 2^bitSize or more is a range error.  The texts of the model have at
\* most nine digits, so a 32- or 64-bit range is never exceeded.
ParseUint(s, bitSize) ==
    IF ~AllDigits(s) THEN ParseFail
    ELSE LET v == DecVal(s)
         IN  IF bitSize <= 16 /\ v >= Pow(2, bitSize) THEN ParseFail
             ELSE [ok |-> TRUE, val |-> v]

\* strconv.ParseInt(s, 10, bitSize): an optional sign, then ParseUint; the
\* magnitude is checked against 2^(bitSize-1).
ParseInt(s, bitSize) ==
    IF Len(s) = 0 THEN ParseFail
    ELSE LET neg  == s[1] = "-"
             body == IF s[1] \in {"+", "-"} THEN Tail(s) ELSE s
             un   == ParseUint(body, 64)
         IN  IF ~un.ok THEN ParseFail
             ELSE IF bitSize <= 16 /\ ~neg /\ un.val >= Pow(2, bitSize - 1)
                  THEN ParseFail
             ELSE IF bitSize <= 16 /\ neg /\ un.val > Pow(2, bitSize - 1)
                  THEN ParseFail
             ELSE [ok |-> TRUE, val |-> IF neg THEN 0 - un.val ELSE un.val]

\* strconv.ParseBool: twelve spellings.
ParseBool(s) ==
    IF s \in {<<"1">>, <<"t">>, <<"T">>, <<"T", "R", "U", "E">>,
              <<"t", "r", "u", "e">>, <<"T", "r", "u", "e">>}
    THEN [ok |-> TRUE, val |-> 1]
    ELSE IF s \in {<<"0">>, <<"f">>, <<"F">>, <<"F", "A", "L", "S", "E">>,
                   <<"f", "a", "l", "s", "e">>, <<"F", "a", "l", "s", "e">>}
    THEN [ok |-> TRUE, val |-> 0]
    ELSE ParseFail

\* strconv.ParseFloat on the texts of the model: an optional sign and
\* decimal digits (an integer value); the sign is kept apart, as the float
\* keeps the sign of -0.
ParseFloat(s) ==
    IF Len(s) = 0 THEN [ok |-> FALSE, neg |-> FALSE, val |-> 0]
    ELSE LET body == IF s[1] \in {"+", "-"} THEN Tail(s) ELSE s
         IN  IF ~AllDigits(body) THEN [ok |-> FALSE, neg |-> FALSE, val |-> 0]
             ELSE [ok |-> TRUE, neg |-> s[1] = "-", val |-> DecVal(body)]

\* Byte k (0 = least significant) of the two's-complement encoding of v,
\* |v| < 2^31: a negative v is the complement of -v-1.
ByteOfNat(v, k) == IF k >= 4 THEN 0 ELSE (v \div Pow(256, k)) % 256

ByteOf(v, k) == IF v >= 0 THEN ByteOfNat(v, k) ELSE 255 - ByteOfNat(0 - v - 1, k)

\* binary.Write(buf, byteOrder, <fixed-width integer>): width bytes, most
\* significant first for BigEndian, least significant first for LittleEndian.
EncodeInt(byteOrder, v, width) ==
    [j \in 1..width |->
        IF byteOrder = "LittleEndian" THEN ByteOf(v, j - 1) ELSE ByteOf(v, width - j)]

RECURSIVE Log2Floor(_)
Log2Floor(n) == IF n <= 1 THEN 0 ELSE 1 + Log2Floor(n \div 2)

\* The IEEE-754 single of an integer n, 0 <= n < 2^24 (exact), big-endian.
Float32BE(neg, n) ==
    LET s == IF neg THEN 128 ELSE 0
    IN  IF n = 0 THEN <<s, 0, 0, 0>>
        ELSE LET e      == Log2Floor(n)
                 biased == e + 127
                 mant   == (n - Pow(2, e)) * Pow(2, 23 - e)
             IN  <<s + (biased \div 2),
                   (biased % 2) * 128 + (mant \div 65536),
                   (mant \div 256) % 256,
                   mant % 256>>

\* The IEEE-754 double of an integer n, 0 <= n < 2^21, big-endian: the top
\* 20 bits of the 52-bit mantissa hold the fraction, the low 32 are zero.
Float64BE(neg, n) ==
    LET s == IF neg THEN 128 ELSE 0
    IN  IF n = 0 THEN <<s, 0, 0, 0, 0, 0, 0, 0>>
        ELSE LET e      == Log2Floor(n)
                 biased == e + 1023
                 m20    == (n - Pow(2, e)) * Pow(2, 20 - e)
             IN  <<s + (biased \div 16),
                   (biased % 16) * 16 + (m20 \div 65536),
                   (m20 \div 256) % 256,
                   m20 % 256, 0, 0, 0, 0>>

EncodeFloat(byteOrder, be) == IF byteOrder = "LittleEndian" THEN Rev(be) ELSE be

Parsed(r, bytes) == [ok |-> r.ok, buf |-> IF r.ok THEN bytes ELSE <<>>]

\* parseRecord: ok = FALSE is cobra.CheckErr(e) on a parse error, which
\* prints the error and ends the process with os.Exit(1); binary.Write of a
\* fixed-width value never fails, so the returned err is always nil.  A
\* value type outside the switch writes nothing: an empty buffer, nil.
parseRecord(byteOrder, valueType, s) ==
    CASE valueType = "bool" ->
           LET r == ParseBool(s) IN Parsed(r, <<r.val>>)
      [] valueType = "int8" ->
           LET r == ParseInt(s, 8) IN Parsed(r, EncodeInt(byteOrder, r.val, 1))
      [] valueType = "int16" ->
           LET r == ParseUint(s, 16) IN Parsed(r, EncodeInt(byteOrder, r.val, 2))
      [] valueType = "int32" ->
           LET r == ParseUint(s, 32) IN Parsed(r, EncodeInt(byteOrder, r.val, 4))
      [] valueType = "int64" ->
           LET r == ParseInt(s, 64) IN Parsed(r, EncodeInt(byteOrder, r.val, 8))
      [] valueType = "uint8" ->
           LET r == ParseUint(s, 8) IN Parsed(r, EncodeInt(byteOrder, r.val, 1))
      [] valueType = "uint16" ->
           LET r == ParseUint(s, 16) IN Parsed(r, EncodeInt(byteOrder, r.val, 2))
      [] valueType = "uint32" ->
           LET r == ParseUint(s, 32) IN Parsed(r, EncodeInt(byteOrder, r.val, 4))
      [] valueType = "uint64" ->
           LET r == ParseUint(s, 64) IN Parsed(r, EncodeInt(byteOrder, r.val, 8))
      [] valueType = "float32" ->
           LET r == ParseFloat(s)
           IN  Parsed(r, EncodeFloat(byteOrder, Float32BE(r.neg, r.val)))
      [] valueType = "float64" ->
           LET r == ParseFloat(s)
           IN  Parsed(r, EncodeFloat(byteOrder, Float64BE(r.neg, r.val)))
      [] OTHER -> [ok |-> TRUE, buf |-> <<>>]

\* ------------------------------------------------------- configuration
\* The value types validateParams accepts (int32, int64 and uint64 are not
\* in the list, uint32 is in it twice).
validValueTypes ==
    <<"bool", "int8", "int16", "uint32", "uint8", "uint16", "uint32",
      "float32", "float64">>

\* getRegisterCount: the 16-bit words a value of the type takes.
getRegisterCount(valueType) ==
    CASE valueType \in {"bool", "int8", "int16", "uint8", "uint16"} -> 1
      [] valueType \in {"float64", "int64", "uint64"} -> 4
      [] OTHER -> 2

\* Params.getByteOrder
getByteOrder(p) ==
    [p EXCEPT !.byteOrder = IF p.ByteSwap THEN "LittleEndian" ELSE "BigEndian"]

\* A validation whose default case leaves the value type as configured.
validateOneKeepsType(params) ==
    getByteOrder(
        CASE params.RegType \in {"coil", "discrete"} ->
               [params EXCEPT !.ByteSwap = FALSE, !.ValueType = "bool"]
          [] params.RegType \in {"input", "holding"} ->
               IF ~contains(params.ValueType, validValueTypes)
               THEN [params EXCEPT !.ValueType = "float32"]
               ELSE params
          [] OTHER -> params)

\* A validation that leaves the byte-swap flag of a coil as configured.
validateOneKeepsSwap(params) ==
    getByteOrder(
        CASE params.RegType \in {"coil", "discrete"} ->
               [params EXCEPT !.ValueType = "bool"]
          [] params.RegType \in {"input", "holding"} ->
               IF ~contains(params.ValueType, validValueTypes)
               THEN [params EXCEPT !.ValueType = "float32"]
               ELSE params
          [] OTHER ->
               IF ~contains(params.ValueType, validValueTypes)
               THEN [params EXCEPT !.ValueType = "float32"]
               ELSE params)

\* validateParams, one element of the slice.
validateOne(params) ==
    getByteOrder(
        CASE params.RegType \in {"coil", "discrete"} ->
               [params EXCEPT !.ByteSwap = FALSE, !.ValueType = "bool"]
          [] params.RegType \in {"input", "holding"} ->
               IF ~contains(params.ValueType, validValueTypes)
               THEN [params EXCEPT !.ValueType = "float32"]
               ELSE params
          [] OTHER ->
               IF ~contains(params.ValueType, validValueTypes)
               THEN [params EXCEPT !.ValueType = "float32"]
               ELSE params)

validateParams(paramsSlice) ==
    [i \in 1..Len(paramsSlice) |-> validateOne(paramsSlice[i])]

\* ------------------------------------------------------ the CSV reader
\* The files of the working directory, by name: a.csv has three rows of one
\* parseable cell, b.csv three rows of two cells with a cell no numeric type
\* parses in row 2, c.csv a single row.  h.csv has a header row and two
\* rows of one cell, i.csv two rows of an index and a cell, hi.csv a header
\* row and two such rows, one.csv a single row of an index and a cell, n.csv
\* two rows of one cell that every value type parses; any other file is
\* empty.
Disk(filename) ==
    CASE filename = "a.csv" -> << << <<"7">> >>, << <<"3", "0", "0">> >>, << <<"2", "1">> >> >>
      [] filename = "b.csv" -> << << <<"1">>, <<"0">> >>, << <<"x">>, <<"1">> >>,
                                  << <<"2">>, <<"0">> >> >>
      [] filename = "c.csv" -> << << <<"5">> >> >>
      [] filename = "h.csv" -> << << <<"v">> >>, << <<"4">> >>, << <<"9">> >> >>
      [] filename = "i.csv" -> << << <<"0">>, <<"6">> >>, << <<"1">>, <<"8">> >> >>
      [] filename = "hi.csv" -> << << <<"k">>, <<"v">> >>, << <<"0">>, <<"6">> >>,
                                   << <<"1">>, <<"8">> >> >>
      [] filename = "one.csv" -> << << <<"1">>, <<"5">> >> >>
      [] filename = "n.csv" -> << << <<"1">> >>, << <<"0">> >> >>
      [] OTHER -> << >>

\* csv.Reader.Read on the reader of lr: the next row, io.EOF at the end of
\* the file, ErrFieldCount (with the row) when the row's field count differs
\* from that of the first row this csv.Reader returned (FieldsPerRecord = 0).
csvRead(rows, pos, fields) ==
    IF pos >= Len(rows)
    THEN [err |-> "EOF", record |-> << >>, pos |-> pos, fields |-> fields]
    ELSE LET rec == rows[pos + 1]
         IN  [err    |-> IF fields # 0 /\ Len(rec) # fields THEN "ErrFieldCount" ELSE "nil",
              record |-> rec,
              pos    |-> pos + 1,
              fields |-> IF fields = 0 THEN Len(rec) ELSE fields]

\* LoopReader.getReader: opens the file again (the handle held before is
\* not closed), with a new csv.Reader, and reads the header row away when
\* ignoreHeader is set; an error of that read is cobra.CheckErr: exit 1.
headerRead(lr, rd) ==
    [st |-> IF rd.err = "nil" THEN "ok" ELSE "exit1",
     lr |-> [lr EXCEPT !.pos = rd.pos, !.fields = rd.fields]]

\* An open that leaves the header row to be read as data.
getReaderKeepsHeader(lr) ==
    [st |-> "ok",
     lr |-> [lr EXCEPT !.pos = 0, !.fields = 0, !.handles = @ + 1, !.opened = TRUE]]

getReader(lr) ==
    IF lr.ignoreHeader
    THEN headerRead([lr EXCEPT !.pos = 0, !.fields = 0, !.handles = @ + 1,
                               !.opened = TRUE],
                    csvRead(Disk(lr.filename), 0, 0))
    ELSE [st |-> "ok",
          lr |-> [lr EXCEPT !.pos = 0, !.fields = 0, !.handles = @ + 1,
                            !.opened = TRUE]]

\* The loop of readRecord over recordsToParse, from cell i: lr.params[i]
\* beyond the slice is an index out of range (a panic), a cell that does
\* not parse ends the process in parseRecord; otherwise "if err == nil"
\* holds and the value is stored.
RECURSIVE parseCells(_, _, _)
RECURSIVE parsedCell(_, _, _, _)
parsedCell(lr, recordsToParse, i, r) ==
    IF ~r.ok THEN [st |-> "exit1", lr |-> lr]
    ELSE parseCells([lr EXCEPT !.value[i] = r.buf], recordsToParse, i + 1)

parseCells(lr, recordsToParse, i) ==
    IF i > Len(recordsToParse) THEN [st |-> "ok", lr |-> lr]
    ELSE IF i > Len(lr.params) THEN [st |-> "panic", lr |-> lr]
    ELSE parsedCell(lr, recordsToParse, i,
                    parseRecord(lr.params[i].byteOrder, lr.params[i].ValueType,
                                recordsToParse[i]))

\* readRecord from "var recordsToParse" on, for the row stringRecord:
\* stringRecord[1:] of a nil slice is a panic.
parseRow(lr, stringRecord) ==
    IF lr.ignoreIndex /\ Len(stringRecord) = 0
    THEN [st |-> "panic", lr |-> lr]
    ELSE parseCells(lr,
                    IF lr.ignoreIndex /\ Len(stringRecord) # 1
                    THEN Tail(stringRecord) ELSE stringRecord,
                    1)

\* readRecord when the read returned a row: any error of the read but
\* io.EOF is a panic.
readRow(lr, rd) ==
    IF rd.err # "nil"
    THEN [st |-> "panic",
          lr |-> [lr EXCEPT !.pos = rd.pos, !.fields = rd.fields, !.reads = @ + 1]]
    ELSE parseRow([lr EXCEPT !.pos = rd.pos, !.fields = rd.fields, !.reads = @ + 1],
                  rd.record)

\* readRecord after the inner call of its io.EOF branch has returned: the
\* outer call goes on with the nil row of its own failed read.
afterInner(inner) ==
    IF inner.st # "ok" THEN inner ELSE parseRow(inner.lr, << >>)

\* The inner call of readRecord on the reopened reader lr, its read being
\* rd: when the reopened file has no row left after the header, the calls
\* never end ("recursion": the process dies of stack or file-handle
\* exhaustion).
innerRead(lr, rd) ==
    IF rd.err = "EOF" THEN [st |-> "recursion", lr |-> lr]
    ELSE afterInner(readRow(lr, rd))

\* A reopen that does not read again.
reopenedOnly(g) == g

\* readRecord at io.EOF after lr.getReader(): the call of itself.
reopened(g) ==
    IF g.st # "ok" THEN g
    ELSE innerRead(g.lr, csvRead(Disk(g.lr.filename), g.lr.pos, g.lr.fields))

readRecordGot(lr, rd) ==
    IF rd.err = "EOF" THEN reopened(getReader(lr)) ELSE readRow(lr, rd)

\* LoopReader.readRecord.  At io.EOF it reopens the file and calls itself.
readRecord(lr) == readRecordGot(lr, csvRead(Disk(lr.filename), lr.pos, lr.fields))

\* LoopReader.nextRecord: lr.reader is never nil once NewSimulation has
\* returned (with no reader yet it would open one, call itself and read
\* once more).
readAgain(first) == IF first.st # "ok" THEN first ELSE readRecord(first.lr)

nextRecordFresh(g) == IF g.st # "ok" THEN g ELSE readAgain(readRecord(g.lr))

nextRecord(lr) ==
    IF ~lr.opened THEN nextRecordFresh(getReader(lr)) ELSE readRecord(lr)

\* LoopReader.close: closes the handle lr.file holds.
close(lr) == [lr EXCEPT !.closed = TRUE, !.handles = IF lr.closed THEN @ ELSE @ - 1]

\* --------------------------------------------------- the simulation unit
EmptyTable == [a \in {} |-> 0]

\* A register table holds 65536 entries, all zero at first; the model keeps
\* the entries written so far.
Put(table, addr, v) ==
    [a \in (DOMAIN table) \cup {addr} |-> IF a = addr THEN v ELSE table[a]]

Get(table, addr) == IF addr \in DOMAIN table THEN table[addr] ELSE 0

\* mbserver.BytesToUint16: big-endian pairs of bytes, an odd last byte left.
BytesToUint16(src) ==
    [k \in 1..(Len(src) \div 2) |-> src[2 * k - 1] * 256 + src[2 * k]]

\* replaceSubSlice: (*dst)[start+uint16(i)] = data[i], the index wrapping
\* at 2^16.
RECURSIVE replaceFrom(_, _, _, _)
replaceFrom(dst, data, start, i) ==
    IF i > Len(data) THEN dst
    ELSE replaceFrom(Put(dst, (start + i - 1) % Uint16Mod, data[i]), data, start, i + 1)

replaceSubSlice(dst, src, start) == replaceFrom(dst, BytesToUint16(src), start, 1)

\* Simulation.updateServer, from parameter i: value[i][0] of an empty value
\* is an index out of range.
RECURSIVE updateServerFrom(_, _, _)
updateServerFrom(server, lr, i) ==
    IF i > Len(lr.params) THEN [st |-> "ok", server |-> server]
    ELSE LET param == lr.params[i]
             addr  == param.RegAddress
             val   == lr.value[i]
         IN  CASE param.RegType = "coil" ->
                    IF Len(val) = 0 THEN [st |-> "panic", server |-> server]
                    ELSE updateServerFrom(
                             [server EXCEPT !.Coils = Put(@, addr, val[1])], lr, i + 1)
               [] param.RegType = "discrete" ->
                    IF Len(val) = 0 THEN [st |-> "panic", server |-> server]
                    ELSE updateServerFrom(
                             [server EXCEPT !.DiscreteInputs = Put(@, addr, val[1])],
                             lr, i + 1)
               [] param.RegType = "holding" ->
                    updateServerFrom(
                        [server EXCEPT !.HoldingRegisters = replaceSubSlice(@, val, addr)],
                        lr, i + 1)
               [] param.RegType = "input" ->
                    updateServerFrom(
                        [server EXCEPT !.InputRegisters = replaceSubSlice(@, val, addr)],
                        lr, i + 1)
               [] OTHER -> updateServerFrom(server, lr, i + 1)

serverUpdated(sim, r) == [st |-> r.st, sim |-> [sim EXCEPT !.server = r.server]]

updateServer(sim) == serverUpdated(sim, updateServerFrom(sim.server, sim.reader, 1))

\* Simulation.update
updateRead(sim, n) ==
    IF n.st # "ok" THEN [st |-> n.st, sim |-> [sim EXCEPT !.reader = n.lr]]
    ELSE updateServer([sim EXCEPT !.reader = n.lr, !.updates = @ + 1])

\* An update that leaves a unit alone while it answers "busy".
updateUnlessBusy(sim) ==
    IF sim.server.function[3] = "slaveDeviceBusy" THEN [st |-> "ok", sim |-> sim]
    ELSE updateRead(sim, nextRecord(sim.reader))

update(sim) == updateRead(sim, nextRecord(sim.reader))

\* The function codes setRequestResponse registers a handler for, and the
\* handlers of its defaults map (those of mbserver.NewServer).
FunctionCodes == {1, 2, 3, 4, 5, 6, 15, 16}

defaults ==
    [c \in FunctionCodes |->
        CASE c = 1 -> "ReadCoils"
          [] c = 2 -> "ReadDiscreteInputs"
          [] c = 3 -> "ReadHoldingRegisters"
          [] c = 4 -> "ReadInputRegisters"
          [] c = 5 -> "WriteSingleCoil"
          [] c = 6 -> "WriteHoldingRegister"
          [] c = 15 -> "WriteMultipleCoils"
          [] OTHER -> "WriteHoldingRegisters"]

\* Simulation.setRequestResponse: the eight standard handlers, or
\* slaveDeviceBusy for each of the eight function codes.
setRequestResponse(sim, respond) ==
    [sim EXCEPT !.server.function =
        IF respond THEN defaults ELSE [c \in FunctionCodes |-> "slaveDeviceBusy"]]

\* slaveDeviceBusy: no data and the exception mbserver.SlaveDeviceFailure.
slaveDeviceBusy == [data |-> << >>, exception |-> "SlaveDeviceFailure"]

\* What a standard handler of mbserver answers a request for address addr
\* with: the entry of its table for the read codes, the handler's echo for
\* the write codes.
standardHandler(server, handler, addr) ==
    [data |-> CASE handler = "ReadCoils" -> <<Get(server.Coils, addr)>>
                [] handler = "ReadDiscreteInputs" -> <<Get(server.DiscreteInputs, addr)>>
                [] handler = "ReadHoldingRegisters" -> <<Get(server.HoldingRegisters, addr)>>
                [] handler = "ReadInputRegisters" -> <<Get(server.InputRegisters, addr)>>
                [] OTHER -> <<addr>>,
     exception |-> "Success"]

\* The answer of the server to a request with function code code for
\* address addr: that of the handler registered for the code.
handle(server, code, addr) ==
    IF server.function[code] = "slaveDeviceBusy" THEN slaveDeviceBusy
    ELSE standardHandler(server, server.function[code], addr)

\* getCSVRecordCount: the field count of the first row, or of the second
\* when HasIndex is set, less one for the index; 0 for a file with no row.
\* "exit1" is cobra.CheckErr on the second read.
secondRow(rd2) ==
    IF rd2.err # "nil" THEN [st |-> "exit1", count |-> 0]
    ELSE [st |-> "ok", count |-> Len(rd2.record) - 1]

firstRow(c, rd) ==
    IF rd.err = "EOF" THEN [st |-> "ok", count |-> 0]
    ELSE IF c.HasIndex
         THEN secondRow(csvRead(Disk(c.Filename), rd.pos, rd.fields))
         ELSE [st |-> "ok", count |-> Len(rd.record)]

getCSVRecordCount(c) == firstRow(c, csvRead(Disk(c.Filename), 0, 0))

\* The Simulation literal of NewSimulation; the server is new, with its
\* standard handlers, its tables are zero and it listens nowhere.  Serve's
\* calls of ListenTCP are commented out, so no step of the program makes a
\* server listen or sets isListening.
newSim(c, params) ==
    [missingRate        |-> c.MissingRate,
     baseTickMultiplier |-> c.Timestep,
     updates            |-> 0,
     drawn              |-> -1,  \* the value of rand.Float32() at the last update
     reader |-> [filename     |-> c.Filename,
                 ignoreHeader |-> c.HasHeader,
                 ignoreIndex  |-> c.HasIndex,
                 opened       |-> FALSE,
                 closed       |-> FALSE,
                 handles      |-> 1,  \* getCSVRecordCount's, left open
                 pos          |-> 0,
                 fields       |-> 0,
                 reads        |-> 0,
                 value        |-> [i \in 1..Len(params) |-> << >>],
                 params       |-> params],
     isListening |-> FALSE,
     server |-> [closed           |-> FALSE,
                 listening        |-> FALSE,  \* no ListenTCP has been called
                 function         |-> defaults,
                 Coils            |-> EmptyTable,
                 DiscreteInputs   |-> EmptyTable,
                 HoldingRegisters |-> EmptyTable,
                 InputRegisters   |-> EmptyTable]]

primed(sim, r) == [st |-> r.st, sim |-> [sim EXCEPT !.reader = r.lr]]

\* A construction that opens the reader and reads no row.
openedUnprimed(sim, g) ==
    IF g.st # "ok" THEN [st |-> g.st, sim |-> sim]
    ELSE [st |-> "ok", sim |-> [sim EXCEPT !.reader = g.lr]]

\* NewSimulation after its checks: the reader is opened and the first row
\* read.
opened(sim, g) ==
    IF g.st # "ok" THEN [st |-> g.st, sim |-> sim]
    ELSE primed(sim, readRecord(g.lr))

counted(sim, rc) ==
    IF rc.st # "ok" THEN [st |-> rc.st, sim |-> sim]
    ELSE IF rc.count = 0 THEN [st |-> "exit1", sim |-> sim]
    ELSE IF Len(sim.reader.params) # rc.count THEN [st |-> "exit1", sim |-> sim]
    ELSE opened(sim, getReader(sim.reader))

\* NewSimulation: "exit1" is os.Exit(1) for an empty file or a column count
\* that differs from the number of params, or a crash of the priming read.
NewSimulation(c) == counted(newSim(c, validateParams(c.Params)), getCSVRecordCount(c))

\* ------------------------------------------------------------- the plan
\* A duration in seconds as a fraction num/den: initSim returns
\* 1e9 * float64(num) / float64(den) nanoseconds.
Seconds(num, den) == [num |-> num, den |-> den]

\* The loop of initSim over cfg.Configs from config k: a config whose file
\* the -F flag does not name is skipped; MissingRate (in hundredths) outside
\* [0, 1) becomes 0; the first NewSimulation that fails ends the process.
RECURSIVE initSimLoop(_, _, _, _, _)
RECURSIVE appended(_, _, _, _, _, _, _)
appended(configs, fileFlag, k, configTimesteps, sims, c, n) ==
    IF n.st # "ok"
    THEN [st |-> n.st, configTimesteps |-> configTimesteps, simulations |-> sims]
    ELSE initSimLoop(configs, fileFlag, k + 1, Append(configTimesteps, c.Timestep),
                     Append(sims, n.sim))

\* A check of the upper limit only.
clampAboveOnly(c) ==
    IF c.MissingRate >= 100 THEN [c EXCEPT !.MissingRate = 0] ELSE c

\* initSim's check of MissingRate.
clampMissingRate(c) ==
    IF c.MissingRate < 0 \/ c.MissingRate >= 100 THEN [c EXCEPT !.MissingRate = 0] ELSE c

initSimLoop(configs, fileFlag, k, configTimesteps, sims) ==
    IF k > Len(configs)
    THEN [st |-> "ok", configTimesteps |-> configTimesteps, simulations |-> sims]
    ELSE IF Len(fileFlag) # 0 /\ ~contains(configs[k].Filename, fileFlag)
    THEN initSimLoop(configs, fileFlag, k + 1, configTimesteps, sims)
    ELSE appended(configs, fileFlag, k, configTimesteps, sims, configs[k],
                  NewSimulation(clampMissingRate(configs[k])))

\* The product GCD*timestep of initSim's return statement: both operands
\* are uint16, so is the product.
tickProduct(g, ts) == (g * ts) % Uint16Mod

\* initSim after its loop: the plan.  configTimesteps[0] of an empty slice
\* is an index out of range.
\* A fallback that resets the multiplier of the servers without a period
\* only.
flatPerUnit(sims, ts) ==
    [st |-> "ok",
     simulations |-> [i \in 1..Len(sims) |->
                        IF sims[i].baseTickMultiplier = 0
                        THEN [sims[i] EXCEPT !.baseTickMultiplier = 1] ELSE sims[i]],
     baseTick |-> Seconds(ts, 1)]

\* A fallback that leaves the multipliers at the configured periods.
flatKeepsPeriods(sims, ts) ==
    [st |-> "ok", simulations |-> sims, baseTick |-> Seconds(ts, 1)]

\* The flat-rate fallback of initSim: every multiplier 1, the base tick the
\* global timestep.
flat(sims, ts) ==
    [st |-> "ok",
     simulations |-> [i \in 1..Len(sims) |-> [sims[i] EXCEPT !.baseTickMultiplier = 1]],
     baseTick |-> Seconds(ts, 1)]

\* A plan that leaves the multipliers at the configured periods.
undivided(sims, g) == sims

\* initSim's loop "simulations[i].baseTickMultiplier /= GCD".
divided(sims, g) ==
    [i \in 1..Len(sims) |-> [sims[i] EXCEPT !.baseTickMultiplier = @ \div g]]

planned(configTimesteps, sims, ts, g) ==
    [st |-> "ok",
     simulations |-> divided(sims, g),
     baseTick |-> Seconds(tickProduct(g, ts), minSliceUint(configTimesteps))]

initSimPlan(configTimesteps, sims, ts) ==
    IF contains(0, configTimesteps) THEN flat(sims, ts)
    ELSE IF Len(sims) = 1 THEN flat(sims, ts)
    ELSE IF Len(configTimesteps) = 0
    THEN [st |-> "panic", simulations |-> sims, baseTick |-> Seconds(0, 1)]
    ELSE planned(configTimesteps, sims, ts,
                 IF Len(configTimesteps) # 1 THEN GCDSlice(configTimesteps)
                 ELSE configTimesteps[1])

looped(l, ts) ==
    IF l.st # "ok"
    THEN [st |-> l.st, simulations |-> l.simulations, baseTick |-> Seconds(0, 1)]
    ELSE initSimPlan(l.configTimesteps, l.simulations, ts)

\* initSim(cfg, files, timestepSet): timestepSet is not read.
initSim(configs, fileFlag, tsSet, ts) ==
    looped(initSimLoop(configs, fileFlag, 1, << >>, << >>), ts)

\* The exit status of a crash: 1 for os.Exit(1), 2 for a panic; a recursion
\* without end dies of whichever resource runs out first.
CrashCodes(st) ==
    CASE st = "exit1" -> {1} [] st = "panic" -> {2} [] OTHER -> {1, 2}

\* ------------------------------------------------------------ the state
VARIABLES
    cfg,          \* viper's cfg.Configs: the servers of config.yaml
    files,        \* the -F flag: the file names to simulate, all when empty
    timestep,     \* the -t flag (its default when not given)
    timestepSet,  \* cmd.Flag("timestep").Changed
    simulations,  \* var simulations []Simulation
    baseTick,     \* initSim's result, the ticker's interval
    totalTicks,   \* var totalTicks uint64
    ticker,       \* time.Ticker: C = ticks waiting in its channel, stopped
    interrupt,    \* signals waiting in term.interrupt (capacity 1)
    mainpc,       \* where rootCmd.Run is
    sched,        \* where the goroutine of Serve is
    proc,         \* the process: running or exited, and its exit status
    verbose,      \* the --verbose flag
    printed,      \* the last lines the printing goroutine of rootCmd.Run wrote
    codec         \* a value type and a cell, and what parseRecord made of them

vars == <<cfg, files, timestep, timestepSet, simulations, baseTick, totalTicks,
          ticker, interrupt, mainpc, sched, proc, verbose, printed, codec>>

inputs == <<cfg, files, timestep, timestepSet, verbose>>

\* What only the printing goroutine and the decoder alone write.
logs == <<printed, codec>>

Running == proc.state = "running"

Exited(code, by) == [state |-> "exited", code |-> code, by |-> by]

\* rand.Float32(), in hundredths: a value of [0, 1), 0 included.
RandValues == {0, 99}

\* ----------------------------------------------------------- start-up
\* rootCmd.Run up to and including runSim: initSim, the termination
\* channels, time.NewTicker (which panics on an interval that is not
\* positive) and Serve, which starts the scheduler goroutine.
started(r, st) ==
    /\ simulations' = r.simulations
    /\ baseTick' = r.baseTick
    /\ IF st = "ok"
       THEN /\ mainpc' = "sleep"
            /\ sched' = [pc |-> "select", reason |-> "none", i |-> 1]
            /\ ticker' = [C |-> 0, stopped |-> FALSE, running |-> TRUE]
            /\ proc' = proc
       ELSE /\ \E code \in CrashCodes(st) : proc' = Exited(code, "crash")
            /\ UNCHANGED <<mainpc, sched, ticker>>

newTicker(r) ==
    started(r, IF r.st # "ok" THEN r.st
               ELSE IF r.baseTick.num = 0 THEN "panic" ELSE "ok")

Startup ==
    /\ Running
    /\ mainpc = "start"
    /\ newTicker(initSim(cfg, files, timestepSet, timestep))
    /\ UNCHANGED <<inputs, logs, totalTicks, interrupt>>

\* ------------------------------------------------------ the environment
\* The ticker's interval has passed: a tick is put in ticker.C unless one
\* is waiting there already (it is dropped then).
ClockFire ==
    /\ Running
    /\ ticker.running /\ ~ticker.stopped /\ ticker.C = 0
    /\ ticker' = [ticker EXCEPT !.C = 1]
    /\ UNCHANGED <<inputs, logs, simulations, baseTick, totalTicks, interrupt, mainpc,
                   sched, proc>>

\* SIGINT or SIGTERM after signal.Notify: put in term.interrupt unless the
\* channel is full.
SignalInterrupt ==
    /\ Running
    /\ mainpc # "start"
    /\ interrupt = 0
    /\ interrupt' = 1
    /\ UNCHANGED <<inputs, logs, simulations, baseTick, totalTicks, ticker, mainpc,
                   sched, proc>>

\* ----------------------------------------------------------- main flow
\* time.Sleep(T) returns.
TimeoutElapses ==
    /\ Running
    /\ mainpc = "sleep"
    /\ mainpc' = "stop"
    /\ UNCHANGED <<inputs, logs, simulations, baseTick, totalTicks, ticker, interrupt,
                   sched, proc>>

\* ticker.Stop(): no tick is sent any more; a tick waiting in the channel
\* stays there or is dropped, depending on the Go version of the build.
MainStopTicker ==
    /\ Running
    /\ mainpc = "stop"
    /\ mainpc' = "send"
    /\ \E c \in {0, ticker.C} : ticker' = [ticker EXCEPT !.stopped = TRUE, !.C = c]
    /\ UNCHANGED <<inputs, logs, simulations, baseTick, totalTicks, interrupt, sched, proc>>

\* rootCmd.Run returns after its send, Execute and main return: the process
\* ends with status 0, whatever the other goroutines are doing.
MainReturn ==
    /\ Running
    /\ mainpc = "sent"
    /\ mainpc' = "returned"
    /\ proc' = Exited(0, "main")
    /\ UNCHANGED <<inputs, logs, simulations, baseTick, totalTicks, ticker, interrupt, sched>>

\* ------------------------------------------------------- the scheduler
AtSelect == Running /\ sched.pc = "select"

\* The test made on the count before the tick.
dueBeforeIncrement(ticks, sim) == (ticks - 1) % sim.baseTickMultiplier = 0

\* The test of Serve: is the unit due on this tick?
due(ticks, sim) == ticks % sim.baseTickMultiplier = 0

\* The loop of the ticker case over the units from unit i, rs[i] being the
\* value rand.Float32() returns for unit i; a multiplier of 0 is an integer
\* division by zero.
RECURSIVE serveLoop(_, _, _, _)
RECURSIVE updated(_, _, _, _, _)
updated(sims, ticks, rs, i, u) ==
    IF u.st # "ok"
    THEN [st |-> u.st, simulations |-> [sims EXCEPT ![i] = u.sim]]
    ELSE serveLoop(
             [sims EXCEPT ![i] = [setRequestResponse(u.sim, rs[i] > u.sim.missingRate)
                                    EXCEPT !.drawn = rs[i]]],
             ticks, rs, i + 1)

serveLoop(sims, ticks, rs, i) ==
    IF i > Len(sims) THEN [st |-> "ok", simulations |-> sims]
    ELSE IF sims[i].baseTickMultiplier = 0 THEN [st |-> "panic", simulations |-> sims]
    ELSE IF due(ticks, sims[i]) THEN updated(sims, ticks, rs, i, update(sims[i]))
    ELSE serveLoop(sims, ticks, rs, i + 1)

ticked(r) ==
    /\ simulations' = r.simulations
    /\ IF r.st = "ok" THEN proc' = proc
       ELSE \E code \in CrashCodes(r.st) : proc' = Exited(code, "crash")

\* A case that notes the reason and goes round the loop again.
staysInLoop(reason) == [pc |-> "select", reason |-> reason, i |-> 1]

\* What receiving a termination signal does to the goroutine: it calls
\* Terminate and never comes back to the select.
terminating(reason) == [pc |-> "Terminate", reason |-> reason, i |-> 1]

\* case <-ticker.C
ServeTick ==
    /\ AtSelect
    /\ ticker.C = 1
    /\ totalTicks < MaxTicks
    /\ ticker' = [ticker EXCEPT !.C = 0]
    /\ totalTicks' = totalTicks + 1
    /\ \E rs \in [1..Len(simulations) -> RandValues] :
         ticked(serveLoop(simulations, totalTicks + 1, rs, 1))
    /\ UNCHANGED <<inputs, logs, baseTick, interrupt, mainpc, sched>>

\* case <-term.interrupt
ServeInterrupt ==
    /\ AtSelect
    /\ interrupt = 1
    /\ interrupt' = 0
    /\ sched' = terminating("user interrupt")
    /\ UNCHANGED <<inputs, logs, simulations, baseTick, totalTicks, ticker, mainpc, proc>>

\* case <-term.timeout: the channel has no buffer, so the receive and the
\* send of rootCmd.Run happen together.
ServeTimeout ==
    /\ AtSelect
    /\ mainpc = "send"
    /\ mainpc' = "sent"
    /\ sched' = terminating("automatic timeout")
    /\ UNCHANGED <<inputs, logs, simulations, baseTick, totalTicks, ticker, interrupt, proc>>

\* One round of Terminate's loop: unit i's reader and server are closed.
TerminateClose ==
    /\ Running
    /\ sched.pc = "Terminate"
    /\ sched.i <= Len(simulations)
    /\ simulations' = [simulations EXCEPT ![sched.i] =
                          [@ EXCEPT !.reader = close(@), !.server.closed = TRUE]]
    /\ sched' = [sched EXCEPT !.i = @ + 1]
    /\ UNCHANGED <<inputs, logs, baseTick, totalTicks, ticker, interrupt, mainpc, proc>>

\* A Terminate that returns to its caller.
terminateReturns == [state |-> "running", code |-> 0, by |-> "none"]

\* What the end of Terminate does to the process: os.Exit(0).
terminateExit == Exited(0, "Terminate")

TerminateExit ==
    /\ Running
    /\ sched.pc = "Terminate"
    /\ sched.i > Len(simulations)
    /\ proc' = terminateExit
    /\ UNCHANGED <<inputs, logs, simulations, baseTick, totalTicks, ticker, interrupt,
                   mainpc, sched>>

\* ------------------------------------------------------ specifications
ParamsOf(filename) ==
    CASE filename = "a.csv" ->
           << [RegAddress |-> 0, RegType |-> "holding", ByteSwap |-> FALSE,
               ValueType |-> "int16", byteOrder |-> "none"] >>
      [] filename = "b.csv" ->
           << [RegAddress |-> 1, RegType |-> "holding", ByteSwap |-> TRUE,
               ValueType |-> "uint16", byteOrder |-> "none"],
              [RegAddress |-> 0, RegType |-> "coil", ByteSwap |-> FALSE,
               ValueType |-> "bool", byteOrder |-> "none"] >>
      [] OTHER ->
           << [RegAddress |-> 2, RegType |-> "input", ByteSwap |-> FALSE,
               ValueType |-> "uint8", byteOrder |-> "none"] >>

\* MissingRate in hundredths.
MissingRateOf(filename) ==
    CASE filename = "a.csv" -> 0 [] filename = "b.csv" -> 30 [] OTHER -> 150

ConfigOf(filename, period) ==
    [Filename |-> filename, HasHeader |-> FALSE, HasIndex |-> FALSE,
     MissingRate |-> MissingRateOf(filename), Timestep |-> period,
     Params |-> ParamsOf(filename)]

SeqsUpTo(S, n) == UNION {[1..k -> S] : k \in 1..n}

\* The servers a run of the scheduler is configured with: a.csv updating
\* every 2 or 6 seconds, b.csv every 4 seconds and c.csv with no period.
RunUnits ==
    {ConfigOf("a.csv", 2), ConfigOf("a.csv", 6), ConfigOf("b.csv", 4),
     ConfigOf("c.csv", 0)}

RunConfigs == SeqsUpTo(RunUnits, MaxSims)

\* Nothing printed yet.
NotPrinted == [done |-> FALSE, totalTicks |-> 0, values |-> << >>]

\* No cell handed to the decoder alone.
NoCodec == [valueType |-> "none", s |-> << >>, out |-> << >>]

InitState ==
    /\ simulations = << >>
    /\ baseTick = Seconds(0, 1)
    /\ totalTicks = 0
    /\ ticker = [C |-> 0, stopped |-> FALSE, running |-> FALSE]
    /\ interrupt = 0
    /\ mainpc = "start"
    /\ sched = [pc |-> "none", reason |-> "none", i |-> 1]
    /\ proc = [state |-> "running", code |-> 0, by |-> "none"]
    /\ printed = NotPrinted

Init ==
    /\ cfg \in RunConfigs
    /\ files = << >>
    /\ timestep = DefaultTimestep
    /\ timestepSet = FALSE
    /\ verbose = FALSE
    /\ codec = NoCodec
    /\ InitState

Next ==
    \/ Startup
    \/ ClockFire
    \/ SignalInterrupt
    \/ TimeoutElapses
    \/ MainStopTicker
    \/ MainReturn
    \/ ServeTick
    \/ ServeInterrupt
    \/ ServeTimeout
    \/ TerminateClose
    \/ TerminateExit

Spec == Init /\ [][Next]_vars

\* The Go scheduler runs a goroutine that can run, and a select among ready
\* cases picks each of them with equal chance: a step of the scheduler
\* goroutine or of the main flow that stays possible is taken in the end.
Fairness ==
    /\ WF_vars(ServeInterrupt)
    /\ WF_vars(ServeTimeout)
    /\ WF_vars(TerminateClose)
    /\ WF_vars(TerminateExit)
    /\ WF_vars(MainStopTicker)
    /\ WF_vars(MainReturn)

FairSpec == Spec /\ Fairness

\* The plan alone: the configuration lists servers with periods taken from
\* the README's table (5, 5, 10, 12), a period of 0 and a long one, some of
\* them left out by the -F flag, and -t is absent or one of the table's
\* values or a long one.
PlanPeriods == {0, 5, 10, 12, 300}

PlanUnits == {ConfigOf(f, p) : f \in {"a.csv", "c.csv"}, p \in PlanPeriods}

PlanTimesteps ==
    {<<DefaultTimestep, FALSE>>, <<5, TRUE>>, <<8, TRUE>>, <<10, TRUE>>,
     <<300, TRUE>>}

PlanInit ==
    /\ cfg \in SeqsUpTo(PlanUnits, MaxPlanSims)
    /\ files \in {<< >>, <<"c.csv">>}
    /\ \E t \in PlanTimesteps : timestep = t[1] /\ timestepSet = t[2]
    /\ verbose = FALSE
    /\ codec = NoCodec
    /\ InitState

PlanNext == Startup

PlanSpec == PlanInit /\ [][PlanNext]_vars

\* One server alone, started and ticking, with no interrupt and the timeout
\* far away.  Its configuration is either n.csv served as one parameter of
\* any register type (a type the program does not know among them), any
\* value type (README's, the program's, and one nobody knows), either byte
\* order and an address at the start or at the end of the table; or one of
\* the files with a header row, an index column, both or none, or no row at
\* all, read with any combination of hasHeader and hasIndex as one or two
\* holding registers, with a missing rate of -0.05, 0, 0.3, 0.99 or 1.
Param(addr, kind, swap, vt) ==
    [RegAddress |-> addr, RegType |-> kind, ByteSwap |-> swap, ValueType |-> vt,
     byteOrder |-> "none"]

UnitKinds == {"coil", "discrete", "holding", "input", "relay"}

UnitTypes ==
    {"bool", "int8", "int16", "int32", "int64", "uint8", "uint16", "uint32",
     "uint64", "float32", "float64", "text"}

UnitAddresses == {0, Uint16Mod - 1}

UnitFiles == {"a.csv", "c.csv", "h.csv", "i.csv", "hi.csv", "one.csv", "e.csv"}

UnitRates == {-5, 0, 30, 99, 100}

UnitParamLists ==
    {<<Param(0, "holding", FALSE, "uint16")>>,
     <<Param(0, "holding", FALSE, "uint16"), Param(1, "holding", TRUE, "uint16")>>}

UnitConfigs ==
    {[Filename |-> "n.csv", HasHeader |-> FALSE, HasIndex |-> FALSE,
      MissingRate |-> 0, Timestep |-> 5, Params |-> <<Param(a, k, w, t)>>] :
        a \in UnitAddresses, k \in UnitKinds, w \in BOOLEAN, t \in UnitTypes}
    \cup
    {[Filename |-> f, HasHeader |-> h, HasIndex |-> x,
      MissingRate |-> m, Timestep |-> 5, Params |-> ps] :
        f \in UnitFiles, h \in BOOLEAN, x \in BOOLEAN, m \in UnitRates,
        ps \in UnitParamLists}

UnitInit ==
    /\ \E c \in UnitConfigs : cfg = <<c>>
    /\ files = << >>
    /\ timestep = DefaultTimestep
    /\ timestepSet = FALSE
    /\ verbose = FALSE
    /\ codec = NoCodec
    /\ InitState

UnitNext ==
    \/ Startup
    \/ ClockFire
    \/ ServeTick

UnitSpec == UnitInit /\ [][UnitNext]_vars

\* ------------------------------------------------------------ the claims
\* The configs the -F flag selects, in the order of the configuration, and
\* their configured periods.
IsSelected(c) == Len(files) = 0 \/ \E k \in 1..Len(files) : files[k] = c.Filename

Selected == SelectSeq(cfg, IsSelected)

Periods == [i \in 1..Len(Selected) |-> Selected[i].Timestep]

\* rootCmd.Run has started the scheduler.
Started == mainpc # "start"

Multiplier(i) == simulations[i].baseTickMultiplier

\* The greatest number that divides every member of a set of positive
\* numbers.
Divides(d, S) == \A p \in S : p % d = 0

MathGCD(S) ==
    CHOOSE d \in 1..(CHOOSE m \in S : \A p \in S : m <= p) :
        Divides(d, S) /\ \A e \in 1..(CHOOSE m \in S : \A p \in S : m <= p) :
                             Divides(e, S) => e <= d

NonFlat == Started /\ Len(Periods) >= 2 /\ ~contains(0, Periods)

\* The row of the file that read k returns when playback loops, and what its
\* cells decode to under the unit's params.
RowOfRead(rows, k) == rows[((k - 1) % Len(rows)) + 1]

Decoded(lr, row) ==
    [j \in 1..Len(lr.params) |->
        parseRecord(lr.params[j].byteOrder, lr.params[j].ValueType, row[j])]

Stopped == proc.state = "exited"

Crashed == proc.state = "exited" /\ proc.by = "crash"

Units == 1..Len(simulations)

\* C1: every handled tick adds exactly 1 to the tick counter and updates
\* exactly the units whose multiplier divides the new count, so that after
\* T handled ticks a unit with multiplier m has been updated T \div m times
\* (while the process has not crashed).
C1_Ticks ==
    /\ [](~Crashed =>
            \A i \in Units : simulations[i].updates = totalTicks \div Multiplier(i))
    /\ [][totalTicks' # totalTicks =>
            /\ totalTicks' = totalTicks + 1
            /\ ~Crashed' =>
                 \A i \in Units :
                    simulations'[i].updates =
                       simulations[i].updates
                         + (IF totalTicks' % Multiplier(i) = 0 THEN 1 ELSE 0)]_vars

\* Six ticks have been handled and a unit with multiplier 3 has been updated
\* twice, next to a unit updated on every tick.
C1_Witness ==
    /\ Running
    /\ totalTicks = 6
    /\ \E i, j \in Units :
         /\ Multiplier(i) = 3 /\ simulations[i].updates = 2
         /\ Multiplier(j) = 1 /\ simulations[j].updates = 6

\* C2: without header and index skipping, the k-th row read from a file of
\* N >= 1 rows (the priming read of NewSimulation being read 1, each update
\* one more) is row ((k-1) mod N)+1, and the reader holds what it decodes to.
C2_Playback ==
    ~Crashed =>
        \A i \in Units :
            LET lr == simulations[i].reader
                k  == simulations[i].updates + 1
            IN  (~lr.ignoreHeader /\ ~lr.ignoreIndex /\ Len(Disk(lr.filename)) >= 1) =>
                    /\ lr.reads = k
                    /\ \A j \in 1..Len(lr.params) :
                         lr.value[j] = Decoded(lr, RowOfRead(Disk(lr.filename), k))[j].buf

\* The fourth and the seventh read of the three-row file have returned
\* row 1 again.
C2_Witness ==
    /\ Running
    /\ \E i \in Units :
         /\ simulations[i].reader.filename = "a.csv"
         /\ simulations[i].updates \in {3, 6}
         /\ simulations[i].reader.value = << <<0, 7>> >>

\* C3: when a cell of the row an update reads does not parse, the process
\* keeps running, that parameter keeps the value the row before decoded to
\* and the other cells of the row are decoded.
C3_MalformedCell ==
    \A i \in Units :
        LET lr   == simulations[i].reader
            rows == Disk(lr.filename)
        IN  \A j \in 1..Len(lr.params) :
                (lr.reads >= 2 /\ ~Decoded(lr, RowOfRead(rows, lr.reads))[j].ok) =>
                    /\ ~Crashed
                    /\ lr.value[j] = Decoded(lr, RowOfRead(rows, lr.reads - 1))[j].buf
                    /\ \A h \in 1..Len(lr.params) :
                         Decoded(lr, RowOfRead(rows, lr.reads))[h].ok =>
                            lr.value[h] = Decoded(lr, RowOfRead(rows, lr.reads))[h].buf

\* C4 as claimed: once an interrupt has been put on term.interrupt, or the
\* timeout has been handed over on term.timeout, no further tick is handled
\* and no unit is updated.
C4_NoTickOnceDelivered ==
    [][(interrupt = 1 \/ sched.reason # "none") =>
          /\ totalTicks' = totalTicks
          /\ \A i \in Units : simulations'[i].updates = simulations[i].updates]_vars

\* C4 as amended: once the scheduler has received an interrupt or the
\* timeout, no further tick is handled, no unit is updated and the reason
\* it acts upon stays the one it received.
C4_NoTickOnceReceived ==
    [][sched.reason # "none" =>
          /\ totalTicks' = totalTicks
          /\ \A i \in Units : simulations'[i].updates = simulations[i].updates
          /\ sched'.reason = sched.reason]_vars

\* The scheduler is terminating on an interrupt while a tick waits in
\* ticker.C and the main flow offers the timeout.
C4_Witness ==
    /\ Running
    /\ sched.reason = "user interrupt"
    /\ mainpc = "send"
    /\ ticker.C = 1
    /\ totalTicks >= 1

\* C5: when the run has ended through interrupt or timeout, every unit's
\* file handle and server have been closed.
C5_AllClosed ==
    (Stopped /\ proc.by \in {"Terminate", "main"}) =>
        \A i \in Units : simulations[i].reader.closed /\ simulations[i].server.closed

\* Running is 1, Terminating 2, Stopped 3 (0 before the scheduler starts).
Phase ==
    IF Stopped THEN 3
    ELSE IF sched.pc = "Terminate" THEN 2
    ELSE IF sched.pc = "select" THEN 1 ELSE 0

\* C6: from Running, an interrupt delivered or the timeout elapsed leads to
\* Stopped; the run never goes back a phase, an exit through interrupt or
\* timeout comes from Terminating, and nothing changes once Stopped.
C6_StateMachine ==
    /\ (Phase = 1 /\ (interrupt = 1 \/ mainpc = "stop")) ~> Stopped
    /\ [][Phase' >= Phase]_vars
    /\ [][(Stopped' /\ ~Stopped /\ proc'.by # "crash") => Phase = 2]_vars
    /\ [][Stopped => UNCHANGED vars]_vars

\* A run that handled a tick and was stopped by Terminate on the timeout.
C6_Witness ==
    /\ Stopped
    /\ proc.by = "Terminate"
    /\ sched.reason = "automatic timeout"
    /\ totalTicks >= 1

\* C7: with two or more servers selected and every period nonzero, GCDSlice
\* returns the greatest common divisor g of the periods and unit i's
\* multiplier is period_i / g, the division leaving no remainder.
C7_Multipliers ==
    NonFlat =>
        /\ Len(simulations) = Len(Periods)
        /\ GCDSlice(Periods) = MathGCD(Range(Periods))
        /\ \A i \in Units : Multiplier(i) * MathGCD(Range(Periods)) = Periods[i]

\* Periods 5, 5, 10 have got the multipliers 1, 1, 2.
C7_Witness ==
    /\ NonFlat
    /\ Periods = <<5, 5, 10>>
    /\ [i \in Units |-> Multiplier(i)] = <<1, 1, 2>>

\* C8: in the non-flat case the base tick is g * timestep / minPeriod
\* seconds, the product not wrapping, so that unit i's update period
\* baseTick * multiplier_i is timestep * period_i / minPeriod.
C8_BaseTick ==
    NonFlat =>
        /\ baseTick.num * minSliceUint(Periods)
             = MathGCD(Range(Periods)) * timestep * baseTick.den
        /\ \A i \in Units :
             baseTick.num * Multiplier(i) * minSliceUint(Periods)
               = timestep * Periods[i] * baseTick.den

\* C9: when a selected server has period 0, or one server alone is
\* selected, every multiplier is 1 and the base tick is the global timestep.
C9_FlatRate ==
    (Started /\ (contains(0, Periods) \/ Len(Periods) = 1)) =>
        /\ Len(simulations) = Len(Periods)
        /\ \A i \in Units : Multiplier(i) = 1
        /\ baseTick.num = timestep * baseTick.den

\* A server with period 0 next to servers with periods of their own.
C9_Witness ==
    /\ Started
    /\ Periods = <<0, 5, 10>>
    /\ \A i \in Units : Multiplier(i) = 1
    /\ baseTick = Seconds(timestep, 1)

\* C10: without -t, and with two or more servers that all have a period,
\* each server's update period (base tick times multiplier) is its own
\* configured period.
C10_OwnPeriod ==
    (NonFlat /\ ~timestepSet) =>
        \A i \in Units : baseTick.num * Multiplier(i) = Periods[i] * baseTick.den

\* ------------------------------------------- the claims on a single unit
\* The rows of a unit's file after its header row, the cells of a row after
\* its index column, and what they decode to under the unit's params.
DataRows(lr) ==
    IF lr.ignoreHeader /\ Len(Disk(lr.filename)) >= 1
    THEN Tail(Disk(lr.filename)) ELSE Disk(lr.filename)

DataCells(lr, row) == IF lr.ignoreIndex /\ Len(row) > 1 THEN Tail(row) ELSE row

DataRowOfRead(lr, k) == DataCells(lr, RowOfRead(DataRows(lr), k))

\* The reader a configuration asks for.
ReaderOf(c) ==
    [filename |-> c.Filename, ignoreHeader |-> c.HasHeader, ignoreIndex |-> c.HasIndex,
     params |-> validateParams(c.Params)]

\* Every data row has a cell for each parameter, and each cell parses.
Clean(lr) ==
    \A r \in 1..Len(DataRows(lr)) :
        /\ Len(DataCells(lr, DataRows(lr)[r])) = Len(lr.params)
        /\ \A j \in 1..Len(lr.params) : Decoded(lr, DataCells(lr, DataRows(lr)[r]))[j].ok

Busy(server) == \A c \in FunctionCodes : server.function[c] = "slaveDeviceBusy"

Table(server, kind) ==
    CASE kind = "coil" -> server.Coils
      [] kind = "discrete" -> server.DiscreteInputs
      [] kind = "holding" -> server.HoldingRegisters
      [] kind = "input" -> server.InputRegisters
      [] OTHER -> EmptyTable

ReadCode(kind) ==
    CASE kind = "coil" -> 1 [] kind = "discrete" -> 2 [] kind = "holding" -> 3
      [] OTHER -> 4

\* The entries of its table a parameter's value takes.
Width(param) ==
    IF param.RegType \in {"coil", "discrete"} THEN 1
    ELSE getRegisterCount(param.ValueType)

Addresses(param) ==
    {(param.RegAddress + k) % Uint16Mod : k \in 0..(Width(param) - 1)}

\* C11: after a due update the unit is in busy mode if and only if the
\* value r drawn for that update is less than the unit's missing rate p.
C11_FaultMode ==
    \A i \in Units :
        simulations[i].drawn >= 0 =>
            (Busy(simulations[i].server)
                <=> simulations[i].drawn < simulations[i].missingRate)

\* C12: after setRequestResponse(false) a request with any of the eight
\* function codes is answered with the device-busy exception and no data,
\* after setRequestResponse(true) by the standard handler of its code; the
\* last call of an update is setRequestResponse(r > p).
C12_HandlerMode ==
    \A i \in Units :
        simulations[i].drawn >= 0 =>
            \A c \in FunctionCodes : \A a \in UnitAddresses :
                handle(simulations[i].server, c, a) =
                    IF simulations[i].drawn > simulations[i].missingRate
                    THEN standardHandler(simulations[i].server, defaults[c], a)
                    ELSE [data |-> << >>, exception |-> "SlaveDeviceBusy"]

\* C13: before the first tick is handled, a read request for a parameter's
\* address is answered with what the first data row decodes to.
C13_Primed ==
    (Started /\ ~Crashed /\ totalTicks = 0) =>
        \A i \in Units :
            LET lr == simulations[i].reader IN
            \A j \in 1..Len(lr.params) :
                LET b == Decoded(lr, DataRowOfRead(lr, 1))[j].buf
                    answer == handle(simulations[i].server,
                                     ReadCode(lr.params[j].RegType),
                                     lr.params[j].RegAddress).data
                IN  /\ lr.params[j].RegType \in {"coil", "discrete"} /\ Len(b) >= 1
                         => answer = <<b[1]>>
                    /\ lr.params[j].RegType \in {"holding", "input"} /\ Len(b) >= 2
                         => answer = <<BytesToUint16(b)[1]>>

\* C14: once a unit has been updated, each table holds entries at exactly
\* the addresses of the parameters of its kind, registerWidth(value type)
\* consecutive words for a holding or input parameter, one entry for a coil
\* or discrete input, and they hold the value the reader decoded.
C14_Writes ==
    \A i \in Units :
        (~Crashed /\ simulations[i].updates >= 1) =>
            LET lr == simulations[i].reader IN
            /\ \A kind \in {"coil", "discrete", "holding", "input"} :
                 DOMAIN Table(simulations[i].server, kind) =
                     UNION {Addresses(lr.params[j]) :
                              j \in {h \in 1..Len(lr.params) : lr.params[h].RegType = kind}}
            /\ \A j \in 1..Len(lr.params) :
                 /\ lr.params[j].RegType \in {"coil", "discrete"} =>
                      Get(Table(simulations[i].server, lr.params[j].RegType),
                          lr.params[j].RegAddress) = lr.value[j][1]
                 /\ lr.params[j].RegType \in {"holding", "input"} =>
                      \A k \in 1..Len(BytesToUint16(lr.value[j])) :
                          Get(Table(simulations[i].server, lr.params[j].RegType),
                              (lr.params[j].RegAddress + k - 1) % Uint16Mod)
                            = BytesToUint16(lr.value[j])[k]

\* C15: with index skipping and rows of more than one column, every read,
\* the one that wraps around included, completes without a crash and
\* decodes the row without its first column.
C15_IndexSkip ==
    \A i \in Units :
        LET lr == simulations[i].reader IN
        (lr.ignoreIndex /\ Clean(lr) /\ Len(Disk(lr.filename)[1]) > 1) =>
            /\ ~Crashed
            /\ \A j \in 1..Len(lr.params) :
                 lr.value[j] =
                    Decoded(lr, DataRowOfRead(lr, simulations[i].updates + 1))[j].buf

\* C16: with header skipping the header row is never decoded (decoding it
\* would end the process, its cells being no numbers): a configuration that
\* skips the header of a file whose data rows match its params never
\* crashes, and after its k-th read of a row the reader holds the data row
\* ((k-1) mod N)+1, the first data row after the opening and after every
\* reopening; the registers hold nothing but what data rows decode to.
C16_HeaderSkip ==
    /\ (cfg[1].HasHeader /\ ~cfg[1].HasIndex /\ Len(DataRows(ReaderOf(cfg[1]))) >= 1
          /\ Clean(ReaderOf(cfg[1]))) => ~Crashed
    /\ \A i \in Units :
         LET lr == simulations[i].reader IN
         lr.ignoreHeader =>
             /\ lr.reads >= 1
             /\ ~Crashed => lr.reads = simulations[i].updates + 1
             /\ \A j \in 1..Len(lr.params) :
                  /\ lr.value[j] = Decoded(lr, DataRowOfRead(lr, lr.reads))[j].buf
                  /\ \A a \in DOMAIN simulations[i].server.HoldingRegisters :
                       a = lr.params[j].RegAddress =>
                          \E r \in 1..Len(DataRows(lr)) :
                             <<simulations[i].server.HoldingRegisters[a]>> =
                                BytesToUint16(Decoded(lr, DataCells(lr, DataRows(lr)[r]))[j].buf)

\* The reader of h.csv has wrapped around and holds the first data row, 4,
\* again.
C16_Witness ==
    /\ Running
    /\ Len(simulations) = 1
    /\ simulations[1].reader.filename = "h.csv"
    /\ simulations[1].reader.ignoreHeader
    /\ simulations[1].updates = 2
    /\ simulations[1].reader.value[1] = <<0, 4>>

\* Start-up has been tried and has ended the process.
Aborted == Crashed /\ mainpc = "start"

\* The number of data columns of the first data row of a configuration.
DataColumns(c) == Len(DataCells(ReaderOf(c), DataRows(ReaderOf(c))[1]))

\* C17: for a file that is empty, or whose data rows parse (and have more
\* than one column when the index is skipped), NewSimulation ends the
\* process if and only if the file is empty or the number of data columns
\* of its first data row differs from the number of params.
C17_Abort ==
    LET c == cfg[1] IN
    ((Started \/ Aborted)
       /\ (Len(Disk(c.Filename)) = 0
             \/ (Len(DataRows(ReaderOf(c))) >= 1
                   /\ (c.HasIndex => Len(Disk(c.Filename)[1]) > 1)
                   /\ \A r \in 1..Len(DataRows(ReaderOf(c))) :
                        \A j \in 1..Min2(Len(c.Params),
                                         Len(DataCells(ReaderOf(c), DataRows(ReaderOf(c))[r]))) :
                            Decoded(ReaderOf(c),
                                    DataCells(ReaderOf(c), DataRows(ReaderOf(c))[r]))[j].ok)))
    => (Aborted <=> (Len(Disk(c.Filename)) = 0 \/ DataColumns(c) # Len(c.Params)))

\* The value types the claim of C18 lists.
ListedValueTypes ==
    {"bool", "int8", "int16", "int32", "int64", "uint8", "uint16", "uint32",
     "uint64", "float32", "float64"}

\* C18: validation leaves the value type of a holding or input parameter
\* unchanged when it is one of the eleven listed and makes it float32
\* otherwise.
C18_ValueTypes ==
    \A i \in Units :
        \A j \in 1..Len(cfg[i].Params) :
            cfg[i].Params[j].RegType \in {"holding", "input"} =>
                simulations[i].reader.params[j].ValueType =
                    IF cfg[i].Params[j].ValueType \in ListedValueTypes
                    THEN cfg[i].Params[j].ValueType ELSE "float32"

UnknownKind(param) == param.RegType \notin {"coil", "discrete", "holding", "input"}

NothingWritten(server) ==
    \A kind \in {"coil", "discrete", "holding", "input"} :
        DOMAIN Table(server, kind) = {}

AcceptedValueTypes ==
    {"bool", "int8", "int16", "uint8", "uint16", "uint32", "float32", "float64"}

C20_CoilNormalised ==
    \A i \in Units :
        \A j \in 1..Len(cfg[i].Params) :
            cfg[i].Params[j].RegType \in {"coil", "discrete"} =>
                LET param == simulations[i].reader.params[j] IN
                /\ param.RegType = cfg[i].Params[j].RegType
                /\ param.ValueType = "bool"
                /\ param.ByteSwap = FALSE
                /\ param.byteOrder = "BigEndian"
                /\ getRegisterCount(param.ValueType) = 1
                /\ (~Crashed /\ simulations[i].updates >= 1) =>
                     DOMAIN Table(simulations[i].server, param.RegType) = {param.RegAddress}

\* A coil configured as a byte-swapped float64 has been updated.
C20_Witness ==
    /\ Running
    /\ Len(simulations) = 1
    /\ cfg[1].Params[1].RegType = "coil"
    /\ cfg[1].Params[1].ValueType = "float64"
    /\ cfg[1].Params[1].ByteSwap
    /\ simulations[1].reader.params[1].ValueType = "bool"
    /\ simulations[1].updates >= 1
    /\ simulations[1].server.Coils[cfg[1].Params[1].RegAddress] = 1

\* C21: a server whose configured fault probability is below 0 or at least
\* 1 is constructed with fault probability 0, and a probability inside
\* [0, 1) is kept as configured (probabilities in hundredths).
C21_FaultClamp ==
    \A i \in Units :
        i <= Len(Selected) =>
            simulations[i].missingRate =
                IF Selected[i].MissingRate < 0 \/ Selected[i].MissingRate >= 100
                THEN 0 ELSE Selected[i].MissingRate

\* A server configured with a negative probability runs, and has been
\* updated, with probability 0.
C21_Witness ==
    /\ Started /\ ~Crashed
    /\ Len(simulations) = 1
    /\ cfg[1].MissingRate < 0
    /\ simulations[1].missingRate = 0
    /\ simulations[1].updates >= 1

\* ------------------------------------------------------ the decoder alone
\* parseRecord applied to one cell under one value type, in either byte
\* order.  The cells are decimal texts at and around the limits of the 8-
\* and 16-bit types (no text has more than nine digits, so every value is
\* inside the 32- and 64-bit ranges), and two texts that are no numbers.
CodecTypes ==
    {"bool", "int8", "int16", "int32", "int64", "uint8", "uint16", "uint32",
     "uint64"}

CodecTexts ==
    {<<"0">>, <<"1">>, <<"1", "2", "7">>, <<"1", "2", "8">>, <<"2", "5", "5">>,
     <<"2", "5", "6">>, <<"3", "2", "7", "6", "7">>, <<"3", "2", "7", "6", "8">>,
     <<"6", "5", "5", "3", "5">>, <<"6", "5", "5", "3", "6">>,
     <<"1", "6", "7", "7", "7", "2", "1", "7">>,
     <<"-", "1">>, <<"-", "1", "2", "8">>, <<"-", "1", "2", "9">>,
     <<"-", "3", "2", "7", "6", "8">>, <<"-", "3", "2", "7", "6", "9">>,
     <<"-", "1", "6", "7", "7", "7", "2", "1", "7">>,
     <<"x">>, << >>}

NotCalled == [called |-> FALSE, ok |-> FALSE, buf |-> << >>]

CodecInit ==
    /\ cfg = << >>
    /\ files = << >>
    /\ timestep = DefaultTimestep
    /\ timestepSet = FALSE
    /\ verbose = FALSE
    /\ \E t \in CodecTypes, x \in CodecTexts :
         codec = [valueType |-> t, s |-> x, out |-> [swap \in BOOLEAN |-> NotCalled]]
    /\ InitState

\* What the call made of the cell; a cell that does not parse ends the
\* process in cobra.CheckErr.
returned(swap, r) ==
    /\ codec' = [codec EXCEPT !.out[swap] = [called |-> TRUE, ok |-> r.ok, buf |-> r.buf]]
    /\ proc' = IF r.ok THEN proc ELSE Exited(1, "crash")

\* readRecord's call of parseRecord for the cell, with the byte order of a
\* parameter whose ByteSwap flag is swap.
ParseCell ==
    /\ Running
    /\ codec.valueType # "none"
    /\ \E swap \in BOOLEAN :
         /\ ~codec.out[swap].called
         /\ returned(swap,
                     parseRecord(getByteOrder(Param(0, "holding", swap,
                                                    codec.valueType)).byteOrder,
                                 codec.valueType, codec.s))
    /\ UNCHANGED <<inputs, printed, simulations, baseTick, totalTicks, ticker,
                   interrupt, mainpc, sched>>

CodecNext == ParseCell

CodecSpec == CodecInit /\ [][CodecNext]_vars

\* A decimal text: digits, with or without a minus sign in front, and the
\* number it writes.
IsDecimal(s) ==
    /\ Len(s) > 0
    /\ IF s[1] = "-" THEN AllDigits(Tail(s)) ELSE AllDigits(s)

TextValue(s) == IF s[1] = "-" THEN 0 - DecVal(Tail(s)) ELSE DecVal(s)

SignedTypes == {"int8", "int16", "int32", "int64"}

UnsignedTypes == {"uint8", "uint16", "uint32", "uint64"}

\* The width of an integer type in bytes.
ByteWidth(t) ==
    CASE t \in {"int8", "uint8"} -> 1
      [] t \in {"int16", "uint16"} -> 2
      [] t \in {"int32", "uint32"} -> 4
      [] OTHER -> 8

\* Is v inside the range of the integer type t?  (The values of the model
\* are all inside the ranges of the types of 4 and 8 bytes, but for their
\* sign.)
InRange(t, v) ==
    IF t \in SignedTypes
    THEN ByteWidth(t) >= 4
         \/ (v >= 0 - Pow(2, 8 * ByteWidth(t) - 1) /\ v <= Pow(2, 8 * ByteWidth(t) - 1) - 1)
    ELSE v >= 0 /\ (ByteWidth(t) >= 4 \/ v <= Pow(2, 8 * ByteWidth(t)) - 1)

\* Byte k (0 the least significant) of v in two's complement, and the
\* little-endian bytes of v in a type of width bytes.
ComplementByte(v, k) ==
    IF k >= 4 THEN (IF v < 0 THEN 255 ELSE 0) ELSE (v \div Pow(256, k)) % 256

LittleEndianBytes(v, width) == [j \in 1..width |-> ComplementByte(v, j - 1)]

\* C22: for every integer value type and every value in range of the type,
\* decoding with byte-swap true yields the little-endian bytes of the value
\* and with byte-swap false the big-endian bytes, which are the reverse of
\* each other and as long as the type is wide; a boolean yields the same
\* single byte under both orders.
C22_ByteOrder ==
    \A swap \in DOMAIN codec.out :
        codec.out[swap].called =>
            /\ (/\ codec.valueType \in SignedTypes \cup UnsignedTypes
                /\ IsDecimal(codec.s)
                /\ InRange(codec.valueType, TextValue(codec.s)))
               => /\ codec.out[swap].ok
                  /\ codec.out[swap].buf =
                        IF swap
                        THEN LittleEndianBytes(TextValue(codec.s),
                                               ByteWidth(codec.valueType))
                        ELSE Rev(LittleEndianBytes(TextValue(codec.s),
                                                   ByteWidth(codec.valueType)))
            /\ (codec.valueType = "bool" /\ codec.s \in {<<"0">>, <<"1">>})
               => /\ codec.out[swap].ok
                  /\ codec.out[swap].buf = <<TextValue(codec.s)>>

\* C29: each signed integer type of width w bits accepts exactly the
\* decimal texts whose value lies in [-2^(w-1), 2^(w-1) - 1] and produces
\* that value's two's-complement bytes, rejecting every text outside the
\* range; each unsigned type accepts exactly those in [0, 2^w - 1].
C29_Ranges ==
    \A swap \in DOMAIN codec.out :
        (codec.out[swap].called /\ codec.valueType \in SignedTypes \cup UnsignedTypes) =>
            /\ codec.out[swap].ok <=>
                   (IsDecimal(codec.s) /\ InRange(codec.valueType, TextValue(codec.s)))
            /\ codec.out[swap].ok =>
                   codec.out[swap].buf =
                       IF swap
                       THEN LittleEndianBytes(TextValue(codec.s),
                                              ByteWidth(codec.valueType))
                       ELSE Rev(LittleEndianBytes(TextValue(codec.s),
                                                  ByteWidth(codec.valueType)))

\* ------------------------------------- the printer beside the scheduler
\* rootCmd.Run starts a second goroutine after Serve's: it sleeps for the
\* global timestep and, with --verbose, prints totalTicks and each unit's
\* reader.value.  No lock or channel orders it with the scheduler goroutine,
\* so its reads can fall inside the ticker case.  For these runs the ticker
\* case is taken in two steps: the receive with "totalTicks += 1", then the
\* loop over the units.
TickBegin ==
    /\ AtSelect
    /\ ticker.C = 1
    /\ totalTicks < MaxTicks
    /\ ticker' = [ticker EXCEPT !.C = 0]
    /\ totalTicks' = totalTicks + 1
    /\ sched' = [sched EXCEPT !.pc = "update"]
    /\ UNCHANGED <<inputs, logs, simulations, baseTick, interrupt, mainpc, proc>>

TickEnd ==
    /\ Running
    /\ sched.pc = "update"
    /\ \E rs \in [1..Len(simulations) -> RandValues] :
         ticked(serveLoop(simulations, totalTicks, rs, 1))
    /\ sched' = [sched EXCEPT !.pc = "select"]
    /\ UNCHANGED <<inputs, logs, baseTick, totalTicks, ticker, interrupt, mainpc>>

\* reader.value of a unit while readRecord's loop stores the cells of the
\* next row one after the other ("lr.value[i] = val"): the first n cells are
\* those of the next row, the others still those of the row before.
midUpdate(old, new, n) ==
    [k \in 1..Len(old) |-> IF k <= n /\ k <= Len(new) THEN new[k] ELSE old[k]]

\* What readValues can find in reader.value of unit sim: the value between
\* two ticks, or any value of an update that is under way.
seenValues(sim) ==
    IF sched.pc = "update" /\ sim.baseTickMultiplier # 0 /\ due(totalTicks, sim)
    THEN {midUpdate(sim.reader.value, update(sim).sim.reader.value, n) :
              n \in 0..Len(sim.reader.value)}
    ELSE {sim.reader.value}

\* The printing goroutine after its sleep: "if verbose", the Printf of
\* totalTicks and readValues.
PrinterPrint ==
    /\ Running
    /\ Started
    /\ verbose
    /\ \E seen \in [Units -> UNION {seenValues(simulations[i]) : i \in Units}] :
         /\ \A i \in Units : seen[i] \in seenValues(simulations[i])
         /\ printed' = [done |-> TRUE, totalTicks |-> totalTicks, values |-> seen]
    /\ UNCHANGED <<inputs, codec, simulations, baseTick, totalTicks, ticker,
                   interrupt, mainpc, sched, proc>>

\* One server: i.csv played as two holding registers, a.csv or h.csv as
\* one, with and without --verbose.
RaceParams(filename) ==
    IF filename = "i.csv"
    THEN <<Param(0, "holding", FALSE, "uint16"), Param(1, "holding", TRUE, "uint16")>>
    ELSE <<Param(0, "holding", FALSE, "uint16")>>

RaceConfigs ==
    {[Filename |-> f, HasHeader |-> (f = "h.csv"), HasIndex |-> FALSE,
      MissingRate |-> 0, Timestep |-> 5, Params |-> RaceParams(f)] :
        f \in {"a.csv", "h.csv", "i.csv"}}

RaceInit ==
    /\ \E c \in RaceConfigs : cfg = <<c>>
    /\ files = << >>
    /\ timestep = DefaultTimestep
    /\ timestepSet = FALSE
    /\ verbose \in BOOLEAN
    /\ codec = NoCodec
    /\ InitState

RaceNext ==
    \/ Startup
    \/ ClockFire
    \/ TickBegin
    \/ TickEnd
    \/ PrinterPrint

RaceSpec == RaceInit /\ [][RaceNext]_vars

\* C23: no reader of a unit's values (here the verbose printer) ever finds a
\* row partially applied: what it finds for a unit is, cell for cell, one
\* data row of the unit's file.
C23_WholeRows ==
    printed.done =>
        \A i \in DOMAIN printed.values :
            \E r \in 1..Len(DataRows(simulations[i].reader)) :
                \A j \in 1..Len(simulations[i].reader.params) :
                    printed.values[i][j] =
                        Decoded(simulations[i].reader,
                                DataCells(simulations[i].reader,
                                          DataRows(simulations[i].reader)[r]))[j].buf

\* C24: the exit status is 0 whenever the run ends through interrupt or
\* timeout; every exit caused by an empty data file or a column-count
\* mismatch has a non-zero status and happens before the first tick; and no
\* other event (a decode failure in particular) ends the process once the
\* scheduler has been started.
C24_ExitStatus ==
    /\ (Stopped /\ proc.by \in {"Terminate", "main"}) => proc.code = 0
    /\ Aborted => (proc.code # 0 /\ totalTicks = 0)
    /\ Crashed => Aborted

\* Does the update period baseTick * multiplier_i of unit i go into its
\* configured period a whole number of times?
PeriodDivided(i) ==
    /\ baseTick.num * Multiplier(i) > 0
    /\ (Periods[i] * baseTick.den) % (baseTick.num * Multiplier(i)) = 0

MultiplesOfMin == \A i \in 1..Len(Periods) : Periods[i] % minSliceUint(Periods) = 0

Accepted(c) ==
    /\ getCSVRecordCount(c).st = "ok"
    /\ getCSVRecordCount(c).count # 0
    /\ getCSVRecordCount(c).count = Len(c.Params)

\* The times the reader of a unit has opened its file again at the end of
\* the file: every open but that of NewSimulation (the handle of
\* getCSVRecordCount is counted in handles too).
Reopens(lr) == lr.handles - 2

\* C26: for every file accepted at startup, a file with no data row after
\* its skipped header row included (the files here have no index column and
\* cells that parse), every call of readRecord returns, and it has opened
\* the file again exactly once for each end of file it met, at most once
\* in a call.
C26_ReopenOnce ==
    ((Started \/ Aborted)
       /\ Accepted(cfg[1]) /\ ~cfg[1].HasIndex /\ Clean(ReaderOf(cfg[1])))
    => /\ ~Crashed
       /\ \A i \in Units :
            /\ Reopens(simulations[i].reader) <= 1 + simulations[i].updates
            /\ Reopens(simulations[i].reader) * Len(DataRows(simulations[i].reader))
                 <= simulations[i].reader.reads - 1
            /\ simulations[i].reader.reads - 1
                 < (Reopens(simulations[i].reader) + 1) * Len(DataRows(simulations[i].reader))

\* C27: at every point each unit has at most one open file handle, and
\* once Terminate has ended the process no handle that was opened for a
\* unit (by the validation, the open or a reopen) is still open.
C27_Handles ==
    \A i \in Units :
        /\ simulations[i].reader.handles <= 1
        /\ (Stopped /\ proc.by = "Terminate") => simulations[i].reader.handles = 0

\* The file of a unit is played from its first row (no header row and no
\* index column are skipped), has two rows or more, and every row has a
\* cell that parses for each parameter.
PlainFile(lr) ==
    /\ ~lr.ignoreHeader
    /\ ~lr.ignoreIndex
    /\ Len(Disk(lr.filename)) >= 2
    /\ Clean(lr)

\* C28: for a file with N >= 2 data rows (no header or index skipping,
\* every cell parseable) the row the k-th update of the unit writes to its
\* tables is data row (k mod N) + 1: each update advances by one row, and
\* the update that meets the end of the file writes row 1.
C28_RowOfUpdate ==
    \A i \in Units :
        (PlainFile(simulations[i].reader) /\ simulations[i].updates >= 1) =>
            \A j \in 1..Len(simulations[i].reader.params) :
                 LET param == simulations[i].reader.params[j]
                     b == Decoded(simulations[i].reader,
                                  Disk(simulations[i].reader.filename)
                                      [(simulations[i].updates
                                          % Len(Disk(simulations[i].reader.filename))) + 1])[j].buf
                 IN  /\ simulations[i].reader.reads = simulations[i].updates + 1
                     /\ simulations[i].reader.value[j] = b
                     /\ param.RegType \in {"coil", "discrete"} =>
                          Get(Table(simulations[i].server, param.RegType),
                              param.RegAddress) = b[1]
                     /\ param.RegType \in {"holding", "input"} =>
                          \A k \in 1..Len(BytesToUint16(b)) :
                              Get(Table(simulations[i].server, param.RegType),
                                  (param.RegAddress + k - 1) % Uint16Mod)
                                = BytesToUint16(b)[k]

\* The third update of a.csv (rows 7, 300, 21) has met the end of the file
\* and written row 1; the second had written row 3.
C28_Witness ==
    /\ Running
    /\ Len(simulations) = 1
    /\ simulations[1].reader.filename = "a.csv"
    /\ PlainFile(simulations[1].reader)
    /\ simulations[1].updates = 3
    /\ simulations[1].reader.reads = 4
    /\ Get(simulations[1].server.HoldingRegisters, 0) = 7

\* C30: in the non-flat case (two or more servers, every period nonzero)
\* the greatest common divisor of all multipliers is 1.
C30_Coprime ==
    NonFlat =>
        /\ Len(simulations) = Len(Periods)
        /\ \A i \in Units : Multiplier(i) >= 1
        /\ MathGCD({Multiplier(i) : i \in Units}) = 1

\* Periods 10, 12 and 300 have got the multipliers 5, 6 and 150.
C30_Witness ==
    /\ NonFlat
    /\ Periods = <<10, 12, 300>>
    /\ [i \in Units |-> Multiplier(i)] = <<5, 6, 150>>

\* C31: once Serve has started the scheduler, every server is listening
\* before the first tick is handled, and stops listening only when
\* Terminate closes it.
C31_Listening ==
    totalTicks >= 1 =>
        \A i \in Units :
            ~simulations[i].server.closed => simulations[i].server.listening

\* C32: in every state reachable once the scheduler loop is running, every
\* unit's multiplier is at least 1, so that the due test of Serve never
\* divides by zero.
C32_MultiplierPositive ==
    Started => \A i \in Units : Multiplier(i) >= 1

\* A server configured without a period runs beside one with a period, and
\* has been updated with multiplier 1.
C32_Witness ==
    /\ Running
    /\ Len(simulations) = 2
    /\ \E i \in Units :
         /\ Selected[i].Timestep = 0
         /\ Multiplier(i) = 1
         /\ simulations[i].updates >= 1
    /\ \E i \in Units : Selected[i].Timestep > 0

\* The tables of a unit hold, at the addresses of each parameter, what the
\* reader's value for the parameter says.
ValueWritten(sim) ==
    \A j \in 1..Len(sim.reader.params) :
        /\ sim.reader.params[j].RegType \in {"coil", "discrete"} =>
             Get(Table(sim.server, sim.reader.params[j].RegType),
                 sim.reader.params[j].RegAddress) = sim.reader.value[j][1]
        /\ sim.reader.params[j].RegType \in {"holding", "input"} =>
             \A k \in 1..Len(BytesToUint16(sim.reader.value[j])) :
                 Get(Table(sim.server, sim.reader.params[j].RegType),
                     (sim.reader.params[j].RegAddress + k - 1) % Uint16Mod)
                   = BytesToUint16(sim.reader.value[j])[k]

\* C33: handling a tick leaves every unit that is not due on it entirely
\* unchanged (row cursor, stored values, tables, fault mode, multiplier);
\* a unit that is due reads one row more and writes it to its tables,
\* whether it was in busy mode before the tick or is after it (as long as
\* the tick does not end the process).
C33_Frame ==
    [][totalTicks' = totalTicks + 1 =>
          /\ Len(simulations') = Len(simulations)
          /\ \A i \in Units :
               IF totalTicks' % Multiplier(i) = 0
               THEN ~Crashed' =>
                      /\ simulations'[i].updates = simulations[i].updates + 1
                      /\ simulations'[i].reader.reads = simulations[i].reader.reads + 1
                      /\ simulations'[i].baseTickMultiplier = Multiplier(i)
                      /\ ValueWritten(simulations'[i])
               ELSE simulations'[i] = simulations[i]]_vars

\* a.csv has been updated twice and holds row 3 in its table, answering
\* "busy" since the second update.
C33_Witness ==
    /\ Running
    /\ \E i \in Units :
         /\ simulations[i].reader.filename = "a.csv"
         /\ simulations[i].updates = 2
         /\ Busy(simulations[i].server)
         /\ Get(simulations[i].server.HoldingRegisters, 0) = 21
    /\ \E i \in Units : simulations[i].updates = 0 /\ totalTicks >= 1

\* C34: for every configuration list and every file filter, a filter that
\* selects none of the configured files included, initSim returns a base
\* tick: start-up does not end the process (the files configured here all
\* pass NewSimulation).
C34_PlanReturns ==
    ~Aborted

====
